---- MODULE Spec2Model ----
(***************************************************************************)
(* Model of LupaAlGiro_Clientes.py: the driver main(), the per-NIT fetch   *)
(* extraer_datos_nit() and the reconstruction limpiar_datos().             *)
(*                                                                         *)
(* A text is a sequence of one-character strings, so that substring tests, *)
(* str.split, str.strip, the regex replacement and the numeric parse are   *)
(* computed character by character.                                        *)
(***************************************************************************)
EXTENDS Integers, Sequences, FiniteSets, TLC

\* ------------------------------------------------------------------ bounds
MaxNits == 3
MaxRowLen == 4
MaxRows == 2
MaxRaggedLen == 4

\* ------------------------------------------------------- program constants
\* len(cells) > 5
MinCeldas == 5
\* cell.split('-', 2)
MaxSplit == 2

\* ------------------------------------------------------------------- texts
T_NIT == <<"N", "I", "T", "-">>
T_NA == <<"N", "/", "A">>
T_None == <<"N", "o", "n", "e">>
Digitos == {"0", "1", "2", "3", "4", "5", "6", "7", "8", "9"}
Puntuacion == {"$", ",", "."}

\* the missing value with which pandas fills the short rows of a ragged frame
\* (None; its str() is a non-empty text with no digit and no "$")
PyNone == <<"None">>

\* cell texts the inputs are drawn from
C_Vacia == <<>>
C_Texto == <<" ", "a", " ">>
C_Ancla3 == <<"N", "I", "T", "-", "1", "-", "A", "-", "B">>
C_Ancla2 == <<"N", "I", "T", "-", "1">>
C_Valor == <<"$", "1", ".", "2", ",", "0">>
C_Fecha == <<"1", "/", "2">>
C_Peso == <<"$">>
Celdas == {C_Vacia, C_Texto, C_Ancla3, C_Ancla2, C_Valor, C_Fecha, C_Peso}
CeldasRagged == {C_Ancla3, C_Valor}

\* ------------------------------------------------------ string operations
RECURSIVE LStrip(_)
LStrip(s) == IF s # <<>> /\ Head(s) = " " THEN LStrip(Tail(s)) ELSE s

RECURSIVE RStrip(_)
RStrip(s) ==
  IF s # <<>> /\ s[Len(s)] = " " THEN RStrip(SubSeq(s, 1, Len(s) - 1)) ELSE s

\* str.strip()
strip(s) == RStrip(LStrip(s))

\* sub in s
Contiene(sub, s) ==
  \E p \in 1..(Len(s) - Len(sub) + 1) : SubSeq(s, p, p + Len(sub) - 1) = sub

\* any(char.isdigit() for char in s)
TieneDigito(s) == \E p \in 1..Len(s) : s[p] \in Digitos

\* str(c)
str(c) == IF c = PyNone THEN T_None ELSE c

RECURSIVE Find(_, _, _)
Find(s, sep, p) ==
  IF p > Len(s) THEN 0 ELSE IF s[p] = sep THEN p ELSE Find(s, sep, p + 1)

\* a variant of split that ignores maxsplit
RECURSIVE splitTodo(_, _, _)
splitTodo(s, sep, n) ==
  LET p == Find(s, sep, 1)
  IN IF p = 0
       THEN <<s>>
       ELSE <<SubSeq(s, 1, p - 1)>> \o splitTodo(SubSeq(s, p + 1, Len(s)), sep, n)

\* s.split(sep, n)
RECURSIVE split(_, _, _)
split(s, sep, n) ==
  LET p == Find(s, sep, 1)
  IN IF n = 0 \/ p = 0
       THEN <<s>>
       ELSE <<SubSeq(s, 1, p - 1)>> \o split(SubSeq(s, p + 1, Len(s)), sep, n - 1)

\* a variant of the replacement that keeps the commas
RECURSIVE quitarSinComa(_)
quitarSinComa(s) ==
  IF s = <<>> THEN <<>>
  ELSE IF Head(s) \in {"$", "."} THEN quitarSinComa(Tail(s))
  ELSE <<Head(s)>> \o quitarSinComa(Tail(s))

\* .replace(r'[\$,\.]', '', regex=True) on one text
RECURSIVE quitarPuntuacion(_)
quitarPuntuacion(s) ==
  IF s = <<>> THEN <<>>
  ELSE IF Head(s) \in Puntuacion THEN quitarPuntuacion(Tail(s))
  ELSE <<Head(s)>> \o quitarPuntuacion(Tail(s))

ValorDigito(c) ==
  CASE c = "0" -> 0 [] c = "1" -> 1 [] c = "2" -> 2 [] c = "3" -> 3 [] c = "4" -> 4
    [] c = "5" -> 5 [] c = "6" -> 6 [] c = "7" -> 7 [] c = "8" -> 8 [] c = "9" -> 9

RECURSIVE Decimal(_, _)
Decimal(s, acc) ==
  IF s = <<>> THEN acc ELSE Decimal(Tail(s), 10 * acc + ValorDigito(Head(s)))

\* pd.to_numeric(s, errors='coerce') on the texts of the alphabet: an optional
\* sign and decimal digits parse, anything else (the empty text too) is NaN
to_numeric(s) ==
  LET neg == s # <<>> /\ Head(s) = "-"
      d == IF neg THEN Tail(s) ELSE s
  IN IF d # <<>> /\ \A p \in 1..Len(d) : d[p] \in Digitos
       THEN [nan |-> FALSE, num |-> IF neg THEN 0 - Decimal(d, 0) ELSE Decimal(d, 0)]
       ELSE [nan |-> TRUE, num |-> 0]

\* ---------------------------------------------------------- limpiar_datos
Max(S) == CHOOSE x \in S : \A y \in S : y <= x

\* pd.DataFrame(extraccion_bruta): every row padded with None to the longest
pd_DataFrame(bruta) ==
  LET ancho == Max({Len(bruta[r]) : r \in 1..Len(bruta)} \cup {0})
  IN [r \in 1..Len(bruta) |->
        [c \in 1..ancho |-> IF c <= Len(bruta[r]) THEN bruta[r][c] ELSE PyNone]]

RECURSIVE Compactar(_)
Compactar(row) ==
  IF row = <<>> THEN <<>>
  ELSE IF strip(str(Head(row))) # <<>>
    THEN <<strip(str(Head(row)))>> \o Compactar(Tail(row))
    ELSE Compactar(Tail(row))

\* a variant of the cell list that keeps the empty cells
ColsSinFiltro(row) == [c \in 1..Len(row) |-> strip(str(row[c]))]

\* cols = [str(c).strip() for c in row if str(c).strip() != ""]
Cols(row) == Compactar(row)

Registro(cols, idx, partes) ==
  [NIT_IPS |-> partes[2],
   Nombre_IPS |-> partes[3],
   Fecha_Giro |-> cols[idx + 1],
   Valor |-> cols[idx + 2],
   Concepto |-> IF idx + 3 <= Len(cols) THEN cols[idx + 3] ELSE T_NA,
   Entidad |-> IF idx + 4 <= Len(cols) THEN cols[idx + 4] ELSE T_NA]

\* a variant of the cell scan without the break
RECURSIVE ScanSinBreak(_, _)
ScanSinBreak(cols, idx) ==
  IF idx > Len(cols) THEN <<>>
  ELSE IF Contiene(T_NIT, cols[idx]) /\ idx + 2 <= Len(cols)
    THEN LET posible_valor == cols[idx + 2]
             partes == split(cols[idx], "-", MaxSplit)
         IN IF ~Contiene(<<"$">>, posible_valor) /\ ~TieneDigito(posible_valor)
              THEN ScanSinBreak(cols, idx + 1)
              ELSE IF Len(partes) >= 3
                THEN <<Registro(cols, idx, partes)>> \o ScanSinBreak(cols, idx + 1)
                ELSE ScanSinBreak(cols, idx + 1)
    ELSE ScanSinBreak(cols, idx + 1)

\* for idx, cell in enumerate(cols): ... (idx counts from 1 here)
RECURSIVE Scan(_, _)
Scan(cols, idx) ==
  IF idx > Len(cols) THEN <<>>
  ELSE IF Contiene(T_NIT, cols[idx]) /\ idx + 2 <= Len(cols)
    THEN LET posible_valor == cols[idx + 2]
             partes == split(cols[idx], "-", MaxSplit)
         IN IF ~Contiene(<<"$">>, posible_valor) /\ ~TieneDigito(posible_valor)
              THEN Scan(cols, idx + 1)
              ELSE IF Len(partes) >= 3
                THEN <<Registro(cols, idx, partes)>>
                ELSE Scan(cols, idx + 1)
    ELSE Scan(cols, idx + 1)

\* the body of "for _, row in df_raw.iterrows()"
FilaRegistros(row) == Scan(Cols(row), 1)

RECURSIVE Reconstruir(_)
Reconstruir(df) ==
  IF df = <<>> THEN <<>> ELSE FilaRegistros(Head(df)) \o Reconstruir(Tail(df))

\* Valor cleaned and parsed, then dropna(subset=['Valor'])
RECURSIVE Normalizar(_)
Normalizar(regs) ==
  IF regs = <<>> THEN <<>>
  ELSE LET r == Head(regs)
           v == to_numeric(quitarPuntuacion(r.Valor))
       IN IF v.nan
            THEN Normalizar(Tail(regs))
            ELSE <<[r EXCEPT !.Valor = v.num]>> \o Normalizar(Tail(regs))

limpiar_datos(bruta) ==
  IF bruta = <<>> THEN <<>> ELSE Normalizar(Reconstruir(pd_DataFrame(bruta)))

\* ------------------------------------------------------- extraer_datos_nit
\* documents the browser may hold after the wait: each a sequence of <tr>,
\* each <tr> a sequence of <td> texts
PaginaVacia == <<>>
PaginaDatos ==
  << <<C_Texto, C_Texto, C_Texto>>,
     <<C_Texto, C_Ancla3, C_Fecha, C_Valor, C_Texto, C_Texto>> >>
PaginaHuecos ==
  << <<C_Vacia, C_Ancla3, C_Fecha, C_Valor, C_Vacia, C_Vacia, C_Vacia>> >>
Paginas == {PaginaVacia, PaginaDatos, PaginaHuecos}

RECURSIVE ExtraerFilas(_)
ExtraerFilas(trs) ==
  IF trs = <<>> THEN <<>>
  ELSE IF Len(Head(trs)) > MinCeldas
    THEN <<[c \in 1..Len(Head(trs)) |-> strip(Head(trs)[c])]>> \o ExtraerFilas(Tail(trs))
    ELSE ExtraerFilas(Tail(trs))

\* -------------------------------------------------------------------- main
Nits == {"A", "B", "C"}

RECURSIVE Dedup(_, _)
Dedup(lista, vistos) ==
  IF lista = <<>> THEN <<>>
  ELSE IF Head(lista) \in vistos
    THEN Dedup(Tail(lista), vistos)
    ELSE <<Head(lista)>> \o Dedup(Tail(lista), vistos \cup {Head(lista)})

\* list(dict.fromkeys(lista))
dict_fromkeys(lista) == Dedup(lista, {})

VARIABLES
  pc,                 \* position in main / extraer_datos_nit / limpiar_datos
  NITS_PROCESAR,      \* the configured identifier list
  nits_unicos,
  i,                  \* position of the for loop of main in nits_unicos
  driver,             \* "ninguno" | "vivo" | "cerrado"
  frame,              \* "default" | "iframe": the session's frame context
  test,               \* outcome printed by the driver test: "pendiente" | "ok" | "error"
  invocados,          \* the NITs extraer_datos_nit was called with, in order
  errores,            \* the NITs reported by the except clause of main's loop
  filas,              \* the value extraer_datos_nit is about to return
  EXTRACCION_BRUTA,
  nLimpiar,           \* calls of limpiar_datos
  df_raw,
  k,                  \* position of the for loop of limpiar_datos in df_raw
  registros_finales,
  df_final,
  salida              \* "ninguna" | "csv" | "sin_datos"

vars ==
  <<pc, NITS_PROCESAR, nits_unicos, i, driver, frame, test, invocados, errores,
    filas, EXTRACCION_BRUTA, nLimpiar, df_raw, k, registros_finales, df_final,
    salida>>

limpiarVars == <<nLimpiar, df_raw, k, registros_finales, df_final, salida>>
mainVars == <<NITS_PROCESAR, nits_unicos, i, driver, test, invocados, errores>>

SeqsHasta(S, n) == UNION {[1..m -> S] : m \in 0..n}

Init ==
  /\ pc = "main"
  /\ NITS_PROCESAR \in SeqsHasta(Nits, MaxNits)
  /\ nits_unicos = <<>>
  /\ i = 1
  /\ driver = "ninguno"
  /\ frame = "default"
  /\ test = "pendiente"
  /\ invocados = <<>>
  /\ errores = <<>>
  /\ filas = <<>>
  /\ EXTRACCION_BRUTA = <<>>
  /\ nLimpiar = 0
  /\ df_raw = <<>>
  /\ k = 1
  /\ registros_finales = <<>>
  /\ df_final = <<>>
  /\ salida = "ninguna"

\* lines 235-239: deduplicate, then configurar_driver() (which may raise)
MainInicio ==
  /\ pc = "main"
  /\ nits_unicos' = dict_fromkeys(NITS_PROCESAR)
  /\ \/ driver' = "vivo" /\ pc' = "test"
     \/ driver' = driver /\ pc' = "crash"
  /\ UNCHANGED <<NITS_PROCESAR, i, frame, test, invocados, errores, filas,
                 EXTRACCION_BRUTA>>
  /\ UNCHANGED limpiarVars

\* a variant of the driver test that goes on after a failure
MainTestSigue ==
  /\ pc = "test"
  /\ \/ test' = "ok"
     \/ test' = "error"
  /\ pc' = "loop"
  /\ EXTRACCION_BRUTA' = <<>>
  /\ UNCHANGED <<NITS_PROCESAR, nits_unicos, i, driver, frame, invocados, errores, filas>>
  /\ UNCHANGED limpiarVars

\* lines 242-250: the test navigation; on failure main returns
MainTest ==
  /\ pc = "test"
  /\ \/ test' = "ok" /\ pc' = "loop"
     \/ test' = "error" /\ pc' = "abortado"
  /\ EXTRACCION_BRUTA' = <<>>
  /\ UNCHANGED <<NITS_PROCESAR, nits_unicos, i, driver, frame, invocados, errores, filas>>
  /\ UNCHANGED limpiarVars

\* line 254, and the call of line 258
MainLoop ==
  /\ pc = "loop"
  /\ \/ /\ i <= Len(nits_unicos)
        /\ invocados' = Append(invocados, nits_unicos[i])
        /\ pc' = "f_get"
     \/ /\ i > Len(nits_unicos)
        /\ invocados' = invocados
        /\ pc' = "quit"
  /\ UNCHANGED <<NITS_PROCESAR, nits_unicos, i, driver, frame, test, errores, filas,
                 EXTRACCION_BRUTA>>
  /\ UNCHANGED limpiarVars

\* line 125: driver.get(URL_ADRES)
FGet ==
  /\ pc = "f_get"
  /\ \/ pc' = "f_wait"
     \/ pc' = "f_except"
  /\ UNCHANGED <<frame, filas, EXTRACCION_BRUTA>>
  /\ UNCHANGED mainVars
  /\ UNCHANGED limpiarVars

\* lines 126-131: wait.until(presence of the iframe), or TimeoutException
FWait ==
  /\ pc = "f_wait"
  /\ \/ pc' = "f_switch"
     \/ pc' = "f_except"
  /\ UNCHANGED <<frame, filas, EXTRACCION_BRUTA>>
  /\ UNCHANGED mainVars
  /\ UNCHANGED limpiarVars

\* line 132: driver.switch_to.frame(iframe)
FSwitch ==
  /\ pc = "f_switch"
  /\ \/ frame' = "iframe" /\ pc' = "f_script"
     \/ frame' = frame /\ pc' = "f_except"
  /\ UNCHANGED <<filas, EXTRACCION_BRUTA>>
  /\ UNCHANGED mainVars
  /\ UNCHANGED limpiarVars

\* lines 135-146: execute_script and the fixed sleep
FScript ==
  /\ pc = "f_script"
  /\ \/ pc' = "f_parse"
     \/ pc' = "f_except"
  /\ UNCHANGED <<frame, filas, EXTRACCION_BRUTA>>
  /\ UNCHANGED mainVars
  /\ UNCHANGED limpiarVars

\* lines 149-157: parse page_source, keep the rows of more than 5 cells
FParse ==
  /\ pc = "f_parse"
  /\ \/ \E pagina \in Paginas : filas' = ExtraerFilas(pagina) /\ pc' = "f_finally"
     \/ filas' = filas /\ pc' = "f_except"
  /\ UNCHANGED <<frame, EXTRACCION_BRUTA>>
  /\ UNCHANGED mainVars
  /\ UNCHANGED limpiarVars

\* lines 159-161
FExcept ==
  /\ pc = "f_except"
  /\ filas' = <<>>
  /\ pc' = "f_finally"
  /\ UNCHANGED <<frame, EXTRACCION_BRUTA>>
  /\ UNCHANGED mainVars
  /\ UNCHANGED limpiarVars

\* a variant of the fetch that leaves the frame context as it is
FFinallySinRestaurar ==
  /\ pc = "f_finally"
  /\ \/ pc' = "m_ret"
     \/ pc' = "m_except"
  /\ UNCHANGED <<frame, filas, EXTRACCION_BRUTA>>
  /\ UNCHANGED mainVars
  /\ UNCHANGED limpiarVars

\* lines 163-164: driver.switch_to.default_content(); when that call raises the
\* exception leaves extraer_datos_nit and the context is whatever the browser
\* was left with
FFinally ==
  /\ pc = "f_finally"
  /\ \/ frame' = "default" /\ pc' = "m_ret"
     \/ frame' \in {frame, "default"} /\ pc' = "m_except"
  /\ UNCHANGED <<filas, EXTRACCION_BRUTA>>
  /\ UNCHANGED mainVars
  /\ UNCHANGED limpiarVars

\* lines 258-259: filas = ...; EXTRACCION_BRUTA.extend(filas)
MainRet ==
  /\ pc = "m_ret"
  /\ EXTRACCION_BRUTA' = EXTRACCION_BRUTA \o filas
  /\ i' = i + 1
  /\ pc' = "loop"
  /\ UNCHANGED <<NITS_PROCESAR, nits_unicos, driver, frame, test, invocados, errores, filas>>
  /\ UNCHANGED limpiarVars

\* a variant of main's except clause that leaves the loop
MainExceptSale ==
  /\ pc = "m_except"
  /\ errores' = Append(errores, nits_unicos[i])
  /\ i' = i + 1
  /\ pc' = "quit"
  /\ UNCHANGED <<NITS_PROCESAR, nits_unicos, driver, frame, test, invocados, filas,
                 EXTRACCION_BRUTA>>
  /\ UNCHANGED limpiarVars

\* lines 261-262
MainExcept ==
  /\ pc = "m_except"
  /\ errores' = Append(errores, nits_unicos[i])
  /\ i' = i + 1
  /\ pc' = "loop"
  /\ UNCHANGED <<NITS_PROCESAR, nits_unicos, driver, frame, test, invocados, filas,
                 EXTRACCION_BRUTA>>
  /\ UNCHANGED limpiarVars

\* line 265
MainQuit ==
  /\ pc = "quit"
  /\ driver' = "cerrado"
  /\ pc' = "limpiar"
  /\ UNCHANGED <<NITS_PROCESAR, nits_unicos, i, frame, test, invocados, errores, filas,
                 EXTRACCION_BRUTA>>
  /\ UNCHANGED limpiarVars

\* line 269 and lines 177-181
LimpiarInicio ==
  /\ pc = "limpiar"
  /\ nLimpiar' = nLimpiar + 1
  /\ \/ /\ EXTRACCION_BRUTA = <<>>
        /\ df_final' = <<>>
        /\ pc' = "exportar"
        /\ UNCHANGED <<df_raw, k, registros_finales>>
     \/ /\ EXTRACCION_BRUTA # <<>>
        /\ df_raw' = pd_DataFrame(EXTRACCION_BRUTA)
        /\ registros_finales' = <<>>
        /\ k' = 1
        /\ pc' = "filas"
        /\ UNCHANGED df_final
  /\ UNCHANGED <<frame, filas, EXTRACCION_BRUTA, salida>>
  /\ UNCHANGED mainVars

\* lines 183-205: one iteration over df_raw.iterrows()
LimpiarFila ==
  /\ pc = "filas"
  /\ k <= Len(df_raw)
  /\ registros_finales' = registros_finales \o FilaRegistros(df_raw[k])
  /\ k' = k + 1
  /\ pc' = IF k = Len(df_raw) THEN "valor" ELSE "filas"
  /\ UNCHANGED <<frame, filas, EXTRACCION_BRUTA, nLimpiar, df_raw, df_final, salida>>
  /\ UNCHANGED mainVars

\* lines 207-216
LimpiarValor ==
  /\ pc = "valor"
  /\ df_final' = Normalizar(registros_finales)
  /\ pc' = "exportar"
  /\ UNCHANGED <<frame, filas, EXTRACCION_BRUTA, nLimpiar, df_raw, k, registros_finales,
                 salida>>
  /\ UNCHANGED mainVars

\* lines 272-283
MainExportar ==
  /\ pc = "exportar"
  /\ salida' = IF df_final # <<>> THEN "csv" ELSE "sin_datos"
  /\ pc' = "fin"
  /\ UNCHANGED <<frame, filas, EXTRACCION_BRUTA, nLimpiar, df_raw, k, registros_finales,
                 df_final>>
  /\ UNCHANGED mainVars

Next ==
  \/ MainInicio
  \/ MainTest
  \/ MainLoop
  \/ FGet
  \/ FWait
  \/ FSwitch
  \/ FScript
  \/ FParse
  \/ FExcept
  \/ FFinally
  \/ MainRet
  \/ MainExcept
  \/ MainQuit
  \/ LimpiarInicio
  \/ LimpiarFila
  \/ LimpiarValor
  \/ MainExportar

Spec == Init /\ [][Next]_vars

\* ------------------------------------------ limpiar_datos on its own inputs
Filas(S, n) == SeqsHasta(S, n)

\* rows of anchors and values whose lengths differ by at most one
FilasRagged == [1..(MaxRaggedLen - 1) -> CeldasRagged] \cup [1..MaxRaggedLen -> CeldasRagged]

\* the empty corpus, every corpus of one row, and the corpora of several rows
\* of unequal length
Corpus ==
  {<<>>}
  \cup {<<r>> : r \in Filas(Celdas, MaxRowLen)}
  \cup UNION {[1..m -> FilasRagged] : m \in 2..MaxRows}

InitLimpiar ==
  /\ pc = "limpiar"
  /\ EXTRACCION_BRUTA \in Corpus
  /\ NITS_PROCESAR = <<>>
  /\ nits_unicos = <<>>
  /\ i = 1
  /\ driver = "cerrado"
  /\ frame = "default"
  /\ test = "ok"
  /\ invocados = <<>>
  /\ errores = <<>>
  /\ filas = <<>>
  /\ nLimpiar = 0
  /\ df_raw = <<>>
  /\ k = 1
  /\ registros_finales = <<>>
  /\ df_final = <<>>
  /\ salida = "ninguna"

NextLimpiar ==
  \/ LimpiarInicio
  \/ LimpiarFila
  \/ LimpiarValor

SpecLimpiar == InitLimpiar /\ [][NextLimpiar]_vars

\* ============================================================== properties
\* Notions used to state the claims, defined apart from the operators above.

MinDe(S) == CHOOSE x \in S : \A y \in S : x <= y
MaxDe(S) == CHOOSE x \in S : \A y \in S : y <= x

\* the n-th smallest element of a set of numbers
Enesimo(S, n) == CHOOSE x \in S : Cardinality({y \in S : y <= x}) = n

NoBlancos(c) == {p \in 1..Len(c) : c[p] # " "}
EsUtil(c) == NoBlancos(c) # {}
Recorte(c) == SubSeq(c, MinDe(NoBlancos(c)), MaxDe(NoBlancos(c)))

\* the non-empty cells of a raw row, trimmed
Utiles(fila) ==
  LET u == SelectSeq(fila, EsUtil) IN [j \in 1..Len(u) |-> Recorte(u[j])]

EsAncla(c) == \E p \in 1..(Len(c) - 3) : <<c[p], c[p + 1], c[p + 2], c[p + 3]>> = T_NIT
Aceptado(v) == \E p \in 1..Len(v) : v[p] = "$" \/ v[p] \in Digitos
Guiones(c) == {p \in 1..Len(c) : c[p] = "-"}

\* an anchor whose value candidate, two cells later, is accepted
AnclaAceptada(u, j) == EsAncla(u[j]) /\ j + 2 <= Len(u) /\ Aceptado(u[j + 2])
\* ... and whose text has the two dashes that make three parts
Califica(u, j) == AnclaAceptada(u, j) /\ Cardinality(Guiones(u[j])) >= 2
Aceptadas(u) == {j \in 1..Len(u) : AnclaAceptada(u, j)}
Calificadas(u) == {j \in 1..Len(u) : Califica(u, j)}

\* the text between the first two dashes, and the text after the second
SegundaParte(c) == SubSeq(c, Enesimo(Guiones(c), 1) + 1, Enesimo(Guiones(c), 2) - 1)
TerceraParte(c) == SubSeq(c, Enesimo(Guiones(c), 2) + 1, Len(c))

\* the raw row the loop of limpiar_datos is at, and the records a step adds
FilaActual == Utiles(EXTRACCION_BRUTA[k])
Nuevos == SubSeq(registros_finales', Len(registros_finales) + 1, Len(registros_finales'))
SoloAgrega == SubSeq(registros_finales', 1, Len(registros_finales)) = registros_finales

NoEsPuntuacion(c) == c \notin {"$", ",", "."}
SinPuntuacion(t) == SelectSeq(t, NoEsPuntuacion)
Cifras(t) == IF t # <<>> /\ t[1] = "-" THEN SubSeq(t, 2, Len(t)) ELSE t
EsNumero(t) == Cifras(t) # <<>> /\ \A p \in 1..Len(Cifras(t)) : Cifras(t)[p] \in Digitos
Magnitud(d) ==
  LET f[p \in 0..Len(d)] ==
        IF p = 0 THEN 0 ELSE f[p - 1] + ValorDigito(d[p]) * 10 ^ (Len(d) - p)
  IN f[Len(d)]
Numero(t) == IF t[1] = "-" THEN 0 - Magnitud(Cifras(t)) ELSE Magnitud(Cifras(t))

PrimerasVeces(L) == {p \in 1..Len(L) : \A q \in 1..(p - 1) : L[q] # L[p]}
\* L without its repetitions, in first-seen order
SinRepetidos(L) ==
  [n \in 1..Cardinality(PrimerasVeces(L)) |-> L[Enesimo(PrimerasVeces(L), n)]]
EsPrefijo(a, b) == Len(a) <= Len(b) /\ SubSeq(b, 1, Len(a)) = a

TrasElBucle == {"quit", "limpiar", "filas", "valor", "exportar", "fin"}
Terminado == {"fin", "abortado", "crash"}

\* ---------------------------------------------------------------------- C1
\* C1: once the session started and verified, extraer_datos_nit is called on
\* exactly the identifiers of the input list, each once, in first-seen
\* order, whatever fetches failed (a failed restore of the frame included).
C1_CadaNitUnaVez ==
  /\ \A a, b \in 1..Len(invocados) : a # b => invocados[a] # invocados[b]
  /\ EsPrefijo(invocados, SinRepetidos(NITS_PROCESAR))
  /\ (test = "ok" /\ pc \in TrasElBucle) => invocados = SinRepetidos(NITS_PROCESAR)

\* a run over a list with a repetition whose first fetch failed in the restore
C1_Testigo ==
  /\ pc = "fin"
  /\ Len(NITS_PROCESAR) = 3
  /\ Len(invocados) = 2
  /\ errores = <<invocados[1]>>

\* ---------------------------------------------------------------------- C2
\* C2: no run that started a browser session ends without quitting it.
C2_SesionCerrada ==
  (pc \in Terminado /\ driver # "ninguno") => driver = "cerrado"

FalloRestaurarAnterior ==
  i > 1 /\ errores # <<>> /\ errores[Len(errores)] = nits_unicos[i - 1]

C4_AbortaSinTocar ==
  test = "error" =>
    /\ pc = "abortado"
    /\ invocados = <<>>
    /\ nLimpiar = 0
    /\ salida = "ninguna"

\* the test failed with identifiers waiting
C4_Testigo == pc = "abortado" /\ test = "error" /\ Len(nits_unicos) >= 2

\* ---------------------------------------------------------------------- C5
\* C5 as stated: every row with an anchor whose value candidate is accepted
\* gives exactly one record.
C5_Original ==
  [][(pc = "filas" /\ Aceptadas(FilaActual) # {}) =>
       Len(registros_finales') = Len(registros_finales) + 1]_vars

\* C5 amended: every row with an accepted anchor that also has three dash
\* parts gives exactly one reconstructed record, taken at the first such
\* anchor; the later anchors of the row are ignored.
C5_UnRegistroPorFila ==
  [][(pc = "filas" /\ Calificadas(FilaActual) # {}) =>
       LET u == FilaActual
           q == MinDe(Calificadas(u))
       IN /\ SoloAgrega
          /\ Len(Nuevos) = 1
          /\ Nuevos[1].NIT_IPS = SegundaParte(u[q])
          /\ Nuevos[1].Nombre_IPS = TerceraParte(u[q])
          /\ Nuevos[1].Fecha_Giro = u[q + 1]
          /\ Nuevos[1].Valor = u[q + 2]]_vars

\* a row with two qualifying anchors has been scanned and gave one record
C5_Testigo ==
  /\ pc = "valor"
  /\ Len(EXTRACCION_BRUTA) = 1
  /\ Cardinality(Calificadas(Utiles(EXTRACCION_BRUTA[1]))) >= 2
  /\ Len(registros_finales) = 1

\* ---------------------------------------------------------------------- C6
\* C6 as stated: a row with 5 or fewer non-empty cells gives no record.
C6_Original ==
  [][(pc = "filas" /\ Len(FilaActual) <= MinCeldas) =>
       registros_finales' = registros_finales]_vars

\* C6 amended: a row with 2 or fewer non-empty cells gives no record,
\* whatever its cells contain; limpiar_datos does not apply the 5-cell limit.
C6_FilaCorta ==
  [][(pc = "filas" /\ Len(FilaActual) <= 2) =>
       registros_finales' = registros_finales]_vars

\* a row whose two non-empty cells are an anchor and a currency value, with an
\* empty cell between them, has been scanned and gave nothing
C6_Testigo ==
  /\ pc = "valor"
  /\ Len(EXTRACCION_BRUTA) = 1
  /\ Len(EXTRACCION_BRUTA[1]) >= 3
  /\ Len(Utiles(EXTRACCION_BRUTA[1])) = 2
  /\ EsAncla(Utiles(EXTRACCION_BRUTA[1])[1])
  /\ Aceptado(Utiles(EXTRACCION_BRUTA[1])[2])
  /\ registros_finales = <<>>

\* ---------------------------------------------------------------------- C7
\* C7: in every emitted record Concepto is "N/A" when the row has no cell at
\* anchor + 3, and Entidad is "N/A" when it has none at anchor + 4.
C7_NAporDefecto ==
  [][(pc = "filas" /\ Calificadas(FilaActual) # {}) =>
       LET u == FilaActual
           q == MinDe(Calificadas(u))
       IN \A n \in 1..Len(Nuevos) :
            /\ q + 3 > Len(u) => Nuevos[n].Concepto = T_NA
            /\ q + 4 > Len(u) => Nuevos[n].Entidad = T_NA]_vars

\* ---------------------------------------------------------------------- C8
RECURSIVE PorFilas(_)
PorFilas(bruta) ==
  IF bruta = <<>> THEN <<>> ELSE limpiar_datos(<<Head(bruta)>>) \o PorFilas(Tail(bruta))

\* C8: the result for a corpus is the concatenation of the results for each
\* of its rows taken alone.
C8_LocalALaFila ==
  (pc = "exportar" /\ nLimpiar = 1) => df_final = PorFilas(EXTRACCION_BRUTA)

\* ---------------------------------------------------------------------- C9
\* C9: a record comes only from an anchor with three dash parts, NIT_IPS the
\* second and Nombre_IPS the third with its further dashes; an anchor with
\* fewer parts gives nothing and the scan goes on to the following cells.
C9_PartesDelAncla ==
  [][pc = "filas" =>
       LET u == FilaActual
       IN /\ SoloAgrega
          /\ \A n \in 1..Len(Nuevos) :
               \E j \in Aceptadas(u) :
                 /\ Cardinality(Guiones(u[j])) >= 2
                 /\ Nuevos[n].NIT_IPS = SegundaParte(u[j])
                 /\ Nuevos[n].Nombre_IPS = TerceraParte(u[j])
          /\ (Nuevos = <<>>) <=> (Calificadas(u) = {})]_vars

\* a row whose first accepted anchor has two parts and whose next anchor has
\* three has been scanned: the record is the second anchor's
C9_Testigo ==
  /\ pc = "valor"
  /\ Len(EXTRACCION_BRUTA) = 1
  /\ LET u == Utiles(EXTRACCION_BRUTA[1])
     IN /\ Aceptadas(u) # {}
        /\ Calificadas(u) # {}
        /\ MinDe(Aceptadas(u)) < MinDe(Calificadas(u))
  /\ Len(registros_finales) = 1
  /\ registros_finales[1].NIT_IPS = <<"1">>
  /\ registros_finales[1].Nombre_IPS = <<"A", "-", "B">>

\* --------------------------------------------------------------------- C10
Parsean == {j \in 1..Len(registros_finales) :
              EsNumero(SinPuntuacion(registros_finales[j].Valor))}

\* C10: the cleaned dataset is the reconstructed records whose Valor, with
\* "$", "," and "." removed, parses as a number, in order, each with that
\* number as Valor; the others, and only they, are dropped.
C10_ValorNumerico ==
  (pc = "exportar" /\ EXTRACCION_BRUTA # <<>>) =>
    /\ Len(df_final) = Cardinality(Parsean)
    /\ \A n \in 1..Len(df_final) :
         LET r == registros_finales[Enesimo(Parsean, n)]
         IN df_final[n] = [r EXCEPT !.Valor = Numero(SinPuntuacion(r.Valor))]

\* two records were reconstructed; the first's Valor does not parse and is
\* dropped, the second's "$1.2,0" is kept as 120
C10_Testigo ==
  /\ pc = "exportar"
  /\ Len(registros_finales) = 2
  /\ registros_finales[2].Valor = C_Valor
  /\ Len(df_final) = 1
  /\ df_final[1].Valor = 120

====
